---- MODULE Spec2Model ----
(***************************************************************************)
(* intake_bluesky.mongo_layout1: the run catalog of a MongoDB document     *)
(* store.  RunCatalog._load counts the documents of one run, and           *)
(* RunCatalog.read_partition returns one fixed-size window of the run's    *)
(* documents, resolving the datum references of each event through an      *)
(* event_model.Filler that is fed, on a miss, with the owning resource and *)
(* all of its datum records.                                               *)
(*                                                                         *)
(* read_partition is modelled as a call frame that advances one store      *)
(* fetch at a time (the blocking I/O calls of the code), because the store *)
(* gives no transactional guarantee across two fetches.                    *)
(***************************************************************************)
EXTENDS Integers, Sequences, FiniteSets, TLC

(***************************************************************************)
(* Bounds of the model.                                                    *)
(***************************************************************************)
MaxPartitionSize == 4
MaxDescriptors == 2
MaxEvents == 2
MaxRemovals == 1
MaxInserted == 2
MaxAccesses == 3
MaxCloses == 2
MaxPageSize == 3
MaxFaults == 1
MaxRuns == 3

VARIABLES
    PARTITION_SIZE,                 \* RunCatalog.PARTITION_SIZE
    \* the document store (MongoDB collections)
    _run_stop_collection,
    _event_descriptor_collection,
    _event_collection,
    _resource_collection,
    _datum_collection,
    removals,                       \* datum records removed so far by other clients
    \* RunCatalog attributes written by _load
    _run_stop_doc,
    _descriptors,
    _offset,
    npartitions,
    shape,                          \* _schema.shape[0], the document count
    \* event_model.Filler caches
    resource_cache,
    datum_cache,
    \* the frame of the read_partition call in progress
    pc,
    i,
    payload,
    events,                         \* what the event cursor has still to yield
    event,                          \* the event being filled
    err,                            \* the exception caught or raised
    datum,                          \* local variable datum (line 422)
    fetches,                        \* store fetches issued for the current event
    dirty,                          \* the store changed while this call ran
    \* what a client that reads the partitions in order has been given
    parts,
    \* the events other clients inserted into the open run: how many, and the
    \* document count of the index load before them
    grown,
    \* the frame of a read_partition call that another thread runs on the
    \* same RunCatalog
    other,
    \* a MongoEventStream of the run, and a generator of its event pages
    stream,
    gen,
    \* the partitions whose read failed on a fetch the store could not serve
    faults,
    \* the catalog of runs: the run_start collection, the catalog as its
    \* constructor left it, and what the last lookup gave
    _run_start_collection,
    catalog,
    lookup,
    \* the frame of a read_partition call on the RunCatalog that the same
    \* catalog made for the other run, and the resources its calls registered
    run_b

storeVars == <<_run_stop_collection, _event_descriptor_collection,
               _event_collection, _resource_collection, _datum_collection,
               removals>>
catalogVars == <<_run_stop_doc, _descriptors, _offset, npartitions, shape>>
fillerVars == <<resource_cache, datum_cache>>
frameVars == <<pc, i, payload, events, event, err, datum, fetches, dirty>>
\* what the partition reader of one catalog never writes
streamVars == <<stream, gen>>
catVars == <<_run_start_collection, catalog, lookup>>
restVars == <<streamVars, faults, catVars, run_b>>
extVars == <<grown, other, restVars>>
vars == <<PARTITION_SIZE, storeVars, catalogVars, fillerVars, frameVars, parts,
          extVars>>

(***************************************************************************)
(* Documents.  Every uid is a pair <<collection, number>>; None is the     *)
(* absent document.  A document's Mongo-internal '_id' is dropped by every *)
(* getter before the document is used, so that the final pop('_id', None)  *)
(* of read_partition finds nothing to remove; '_id' is left out.           *)
(***************************************************************************)
None == [uid |-> <<"None", 0>>]
NoError == [type |-> "None", key |-> "None"]
NotGrown == [count |-> 0, by |-> 0]
NoStream == [name |-> "None", descriptors |-> <<>>, _ds |-> None,
             _schema |-> "None", opened |-> 0, accesses |-> 0, closes |-> 0,
             result |-> "None"]
NoGen == [page_size |-> 0]
NoCatalog == [constructed |-> FALSE]
NoLookup == [key |-> <<"None", 0>>]
NoCall == [pc |-> "idle", i |-> 0, payload |-> <<>>, events |-> <<>>,
           event |-> None, err |-> NoError, datum |-> None, fetches |-> <<>>]
NoRun == [pc |-> "idle", i |-> 0, payload |-> <<>>, events |-> <<>>,
          event |-> None, err |-> NoError, datum |-> None, fetches |-> <<>>,
          npartitions |-> 0, _run_stop_doc |-> None, registered |-> {}]

RunUid == <<"run_start", 1>>
OtherRunUid == <<"run_start", 2>>
_run_start_doc == [uid |-> RunUid]

PartitionSizes == 1..MaxPartitionSize

Max(a, b) == IF a >= b THEN a ELSE b
Min(a, b) == IF a <= b THEN a ELSE b

\* sort=[('time', pymongo.ASCENDING)] over documents of distinct times
RECURSIVE SortByTime(_)
SortByTime(S) ==
    IF S = {} THEN <<>>
    ELSE LET m == CHOOSE d \in S : \A o \in S : d.time <= o.time
         IN <<m>> \o SortByTime(S \ {m})

\* cursor.skip(skip) followed by cursor.limit(limit)
SkipLimit(seq, skip, limit) ==
    SubSeq(seq, skip + 1, Min(Len(seq), skip + limit))

\* itertools.islice(iterable, start, stop)
islice(seq, start, stop) ==
    SubSeq(seq, start + 1, Min(Len(seq), stop))

Uids(docs) == {docs[k].uid : k \in 1..Len(docs)}

(***************************************************************************)
(* MongoMetadataStoreCatalog: the getters handed to the RunCatalog.        *)
(***************************************************************************)
_get_run_stop(run_start_uid) ==
    IF \E doc \in _run_stop_collection : doc.run_start = run_start_uid
    THEN CHOOSE doc \in _run_stop_collection : doc.run_start = run_start_uid
    ELSE None

_get_event_descriptors(run_start_uid) ==
    SortByTime({doc \in _event_descriptor_collection :
                    doc.run_start = run_start_uid})

_get_event_cursor(descriptor_uids, skip, limit) ==
    SkipLimit(SortByTime({doc \in _event_collection :
                              doc.descriptor \in descriptor_uids}),
              skip, limit)

_get_event_count(descriptor_uids) ==
    Cardinality({doc \in _event_collection :
                     doc.descriptor \in descriptor_uids})

\* find_one({'uid': uid}); None stands for the ValueError of line 139
_get_resource(uid) ==
    IF \E doc \in _resource_collection : doc.uid = uid
    THEN CHOOSE doc \in _resource_collection : doc.uid = uid
    ELSE None

\* find_one({'datum_id': datum_id}); None stands for the ValueError of line 147
_get_datum(datum_id) ==
    IF \E doc \in _datum_collection : doc.datum_id = datum_id
    THEN CHOOSE doc \in _datum_collection : doc.datum_id = datum_id
    ELSE None

\* variant: find_one in place of find, one record of the resource
_get_datum_cursor_one(resource_uid) ==
    IF \E doc \in _datum_collection : doc.resource = resource_uid
    THEN {CHOOSE doc \in _datum_collection : doc.resource = resource_uid}
    ELSE {}

_get_datum_cursor(resource_uid) ==
    {doc \in _datum_collection : doc.resource = resource_uid}

(***************************************************************************)
(* RunCatalog._load: the run index.                                        *)
(***************************************************************************)
\* variant: count // size + 1
floor_plus_one(count, size) == (count \div size) + 1

\* int(numpy.ceil(count / self.PARTITION_SIZE))
ceil(count, size) ==
    IF count % size = 0 THEN count \div size ELSE (count \div size) + 1

\* count, lines 341-347
Count(descriptors, run_stop_doc) ==
    1 + Len(descriptors)
      + _get_event_count(Uids(descriptors))
      + (IF run_stop_doc # None THEN 1 ELSE 0)

_load ==
    LET run_stop_doc == _get_run_stop(RunUid)
        descriptors == _get_event_descriptors(RunUid)
        count == Count(descriptors, run_stop_doc)
    IN  [_run_stop_doc |-> run_stop_doc,
         _descriptors |-> descriptors,
         _offset |-> Len(descriptors) + 1,
         count |-> count,
         npartitions |-> ceil(count, PARTITION_SIZE)]

(***************************************************************************)
(* event_model.Filler, at its interface: 'resource' and 'datum' documents  *)
(* are added to the caches; 'event' fills, in key order, every unfilled    *)
(* key whose datum is cached and raises UnresolvableForeignKeyError, with  *)
(* the datum id as its key, at the first one that is not.  The event is    *)
(* filled in place, so the keys before the miss stay filled.               *)
(***************************************************************************)
CachedDatumIds(cache) == {doc.datum_id : doc \in cache}

\* the first key the Filler cannot resolve, 0 when it resolves them all
FirstMiss(doc, cache) ==
    LET missing == {k \in 1..Len(doc.data) :
                        ~doc.filled[k] /\ doc.data[k] \notin CachedDatumIds(cache)}
    IN  IF missing = {} THEN 0
        ELSE CHOOSE k \in missing : \A o \in missing : k <= o

FillerEvent(doc, cache) ==
    LET miss == FirstMiss(doc, cache)
    IN  [doc EXCEPT !.filled =
            [k \in 1..Len(doc.data) |-> doc.filled[k] \/ miss = 0 \/ k < miss]]

Unresolvable(doc, cache) ==
    [type |-> "UnresolvableForeignKeyError",
     key |-> doc.data[FirstMiss(doc, cache)]]

(***************************************************************************)
(* RunCatalog.read_partition.                                              *)
(***************************************************************************)
\* itertools.chain((('start', doc),), (('descriptor', doc) for doc in ...))
chain(descriptors) ==
    <<<<"start", _run_start_doc>>>> \o
    [k \in 1..Len(descriptors) |-> <<"descriptor", descriptors[k]>>]

\* lines 403-410: the slice of the leading block that falls in the window
Leading(start, stop, offset, descriptors) ==
    IF start < offset THEN islice(chain(descriptors), start, stop) ELSE <<>>

\* line 412
Skip(start, emitted) == Max(0, start - Len(emitted))

\* line 413
Limit(start, stop, emitted) == stop - start - Len(emitted)

\* variant: the stop document from the last partition on
EmitsStopFromLast(n, nparts, run_stop_doc) ==
    n >= nparts - 1 /\ run_stop_doc # None

\* variant: the stop document in every partition that queries events
EmitsStopAlways(n, nparts, run_stop_doc) == run_stop_doc # None

\* line 432
EmitsStop(n, nparts, run_stop_doc) == n = nparts - 1 /\ run_stop_doc # None

Raise(type, key) == [type |-> type, key |-> key]

\* lines 399-416: the index load, the leading block and the event query
Call(n) ==
    /\ pc = "idle"
    /\ LET loaded == _load
           start == n * PARTITION_SIZE
           stop == (1 + n) * PARTITION_SIZE
           lead == Leading(start, stop, loaded._offset, loaded._descriptors)
           skip == Skip(start, lead)
           limit == Limit(start, stop, lead)
       IN  /\ _run_stop_doc' = loaded._run_stop_doc
           /\ _descriptors' = loaded._descriptors
           /\ _offset' = loaded._offset
           /\ shape' = loaded.count
           /\ npartitions' = loaded.npartitions
           /\ i' = n
           /\ payload' = lead
           /\ IF limit > 0
              THEN /\ events' = _get_event_cursor(Uids(loaded._descriptors),
                                                  skip, limit)
                   /\ pc' = "events"
              ELSE /\ events' = <<>>
                   /\ pc' = "return"
    /\ event' = None
    /\ err' = NoError
    /\ datum' = None
    /\ fetches' = <<>>
    /\ dirty' = FALSE
    /\ UNCHANGED <<extVars, PARTITION_SIZE, storeVars, fillerVars, parts>>

\* lines 417-421 and 431: the next event of the cursor, filled from the caches
FillEvent ==
    /\ pc = "events"
    /\ events # <<>>
    /\ LET doc == Head(events)
       IN  /\ events' = Tail(events)
           /\ event' = FillerEvent(doc, datum_cache)
           /\ fetches' = <<>>
           /\ IF FirstMiss(doc, datum_cache) = 0
              THEN /\ payload' = Append(payload, <<"event", event'>>)
                   /\ err' = NoError
                   /\ pc' = "events"
              ELSE /\ payload' = payload
                   /\ err' = Unresolvable(doc, datum_cache)
                   /\ pc' = "get_datum"
    /\ UNCHANGED <<extVars, PARTITION_SIZE, storeVars, catalogVars, fillerVars,
                   i, datum, dirty, parts>>

\* line 422
GetDatum ==
    /\ pc = "get_datum"
    /\ fetches' = Append(fetches, <<"datum", err.key>>)
    /\ IF _get_datum(err.key) = None
       THEN /\ err' = Raise("ValueError", err.key)
            /\ datum' = datum
            /\ pc' = "raised"
       ELSE /\ err' = err
            /\ datum' = _get_datum(err.key)
            /\ pc' = "get_resource"
    /\ UNCHANGED <<extVars, PARTITION_SIZE, storeVars, catalogVars, fillerVars,
                   i, payload, events, event, dirty, parts>>

\* lines 423-425
GetResource ==
    /\ pc = "get_resource"
    /\ fetches' = Append(fetches, <<"resource", datum.resource>>)
    /\ IF _get_resource(datum.resource) = None
       THEN /\ err' = Raise("ValueError", datum.resource)
            /\ resource_cache' = resource_cache
            /\ pc' = "raised"
       ELSE /\ err' = err
            /\ resource_cache' = resource_cache \cup {_get_resource(datum.resource)}
            /\ pc' = "get_datum_cursor"
    /\ UNCHANGED <<extVars, PARTITION_SIZE, storeVars, catalogVars, datum_cache,
                   i, payload, events, event, datum, dirty, parts>>

\* variant: only the datum that missed is handed to the Filler
GetDatumCursorOnlyMissed ==
    /\ pc = "get_datum_cursor"
    /\ fetches' = Append(fetches, <<"datum_cursor", datum.resource>>)
    /\ datum_cache' = datum_cache \cup {datum}
    /\ event' = FillerEvent(event, datum_cache')
    /\ IF FirstMiss(event, datum_cache') = 0
       THEN /\ payload' = Append(payload, <<"event", event'>>)
            /\ err' = NoError
            /\ pc' = "events"
       ELSE /\ payload' = payload
            /\ err' = Unresolvable(event, datum_cache')
            /\ pc' = "raised"
    /\ UNCHANGED <<extVars, PARTITION_SIZE, storeVars, catalogVars, resource_cache,
                   i, events, datum, dirty, parts>>

\* variant: a miss of the retry starts another prefetch round
GetDatumCursorRetrying ==
    /\ pc = "get_datum_cursor"
    /\ fetches' = Append(fetches, <<"datum_cursor", datum.resource>>)
    /\ datum_cache' = datum_cache \cup _get_datum_cursor(datum.resource)
    /\ event' = FillerEvent(event, datum_cache')
    /\ IF FirstMiss(event, datum_cache') = 0
       THEN /\ payload' = Append(payload, <<"event", event'>>)
            /\ err' = NoError
            /\ pc' = "events"
       ELSE /\ payload' = payload
            /\ err' = Unresolvable(event, datum_cache')
            /\ pc' = "get_datum"
    /\ UNCHANGED <<extVars, PARTITION_SIZE, storeVars, catalogVars, resource_cache,
                   i, events, datum, dirty, parts>>

\* lines 427-431: the batch of the resource's datum records, then the retry
GetDatumCursor ==
    /\ pc = "get_datum_cursor"
    /\ fetches' = Append(fetches, <<"datum_cursor", datum.resource>>)
    /\ datum_cache' = datum_cache \cup _get_datum_cursor(datum.resource)
    /\ event' = FillerEvent(event, datum_cache')
    /\ IF FirstMiss(event, datum_cache') = 0
       THEN /\ payload' = Append(payload, <<"event", event'>>)
            /\ err' = NoError
            /\ pc' = "events"
       ELSE /\ payload' = payload
            /\ err' = Unresolvable(event, datum_cache')
            /\ pc' = "raised"
    /\ UNCHANGED <<extVars, PARTITION_SIZE, storeVars, catalogVars, resource_cache,
                   i, events, datum, dirty, parts>>

\* lines 432-433: the cursor is exhausted
EndEvents ==
    /\ pc = "events"
    /\ events = <<>>
    /\ payload' = IF EmitsStop(i, npartitions, _run_stop_doc)
                  THEN Append(payload, <<"stop", _run_stop_doc>>)
                  ELSE payload
    /\ pc' = "return"
    /\ UNCHANGED <<extVars, PARTITION_SIZE, storeVars, catalogVars, fillerVars,
                   i, events, event, err, datum, fetches, dirty, parts>>

\* what the caller is given: the payload of line 436, or the exception
Outcome ==
    IF pc = "return"
    THEN [ok |-> TRUE, payload |-> payload, err |-> NoError]
    ELSE [ok |-> FALSE, payload |-> <<>>, err |-> err]

\* the call ends: the frame is dropped
EndCall ==
    /\ pc \in {"return", "raised"}
    /\ pc' = "idle"
    /\ i' = 0
    /\ payload' = <<>>
    /\ events' = <<>>
    /\ event' = None
    /\ err' = NoError
    /\ datum' = None
    /\ fetches' = <<>>
    /\ dirty' = FALSE
    /\ UNCHANGED <<extVars, PARTITION_SIZE, storeVars, catalogVars, fillerVars>>

\* line 436, or the exception leaving read_partition
Return ==
    /\ EndCall
    /\ parts' = parts

\* the same, to a client that reads the partitions in order (partition
\* Len(parts) next) and keeps what each read gave it
ReturnToReader ==
    /\ EndCall
    /\ parts' = IF ~dirty /\ i = Len(parts) THEN Append(parts, Outcome) ELSE parts

(***************************************************************************)
(* The store belongs to other clients too and is not transactional: a      *)
(* datum record may be removed at any time, also between two fetches of a  *)
(* read_partition call.  The run's own documents are left alone.           *)
(***************************************************************************)
RemoveDatum(doc) ==
    /\ removals < MaxRemovals
    /\ doc \in _datum_collection
    /\ _datum_collection' = _datum_collection \ {doc}
    /\ removals' = removals + 1
    /\ dirty' = (pc # "idle")
    /\ parts' = <<>>
    /\ UNCHANGED <<extVars, PARTITION_SIZE, _run_stop_collection,
                   _event_descriptor_collection, _event_collection,
                   _resource_collection, catalogVars, fillerVars,
                   pc, i, payload, events, event, err, datum, fetches>>

(***************************************************************************)
(* The initial store: one run of up to MaxDescriptors descriptors and      *)
(* MaxEvents events, open or closed, beside the documents of another run.  *)
(***************************************************************************)
Resource(n) == [uid |-> <<"resource", n>>]
Datum(id, n) == [datum_id |-> id, resource |-> <<"resource", n>>]
Datums == {Datum("a", 1), Datum("b", 1), Datum("c", 2)}

\* the datum ids of one event's data, in key order
DataShapes == {<<>>, <<"a">>, <<"a", "b">>, <<"a", "c">>}

\* descriptors are named by turns for the two streams of a run
Descriptor(k, run) ==
    [uid |-> <<"event_descriptor", k>>, run_start |-> run, time |-> k,
     name |-> IF k % 2 = 1 THEN "primary" ELSE "baseline"]

Event(k, descriptor, data) ==
    [uid |-> <<"event", k>>, time |-> k, seq_num |-> k,
     descriptor |-> <<"event_descriptor", descriptor>>,
     data |-> data, filled |-> [j \in 1..Len(data) |-> FALSE]]

RunStop(k, run) == [uid |-> <<"run_stop", k>>, run_start |-> run]

\* a scan_id is shared by two runs, the later one the more recent
RunStart(k) ==
    [uid |-> <<"run_start", k>>, scan_id |-> (k + 1) \div 2, time |-> k]

\* the partition indices a caller asks for: every partition of the run and
\* the two indices past the last one
Indices == 0..(_load.npartitions + 1)

\* nothing loaded, nothing cached, no call in progress
Fresh ==
    /\ _resource_collection = {Resource(1), Resource(2)}
    /\ _datum_collection = Datums
    /\ removals = 0
    /\ _run_stop_doc = None
    /\ _descriptors = <<>>
    /\ _offset = 0
    /\ npartitions = 0
    /\ shape = 0
    /\ resource_cache = {}
    /\ datum_cache = {}
    /\ pc = "idle"
    /\ i = 0
    /\ payload = <<>>
    /\ events = <<>>
    /\ event = None
    /\ err = NoError
    /\ datum = None
    /\ fetches = <<>>
    /\ dirty = FALSE
    /\ parts = <<>>
    /\ grown = NotGrown
    /\ other = NoCall
    /\ stream = NoStream
    /\ gen = NoGen
    /\ faults = {}
    /\ catalog = NoCatalog
    /\ lookup = NoLookup
    /\ run_b = NoRun

Init ==
    /\ PARTITION_SIZE \in PartitionSizes
    /\ \E nd \in 0..MaxDescriptors, ne \in 0..MaxEvents, closed \in BOOLEAN :
          /\ nd = 0 => ne = 0
          /\ _event_descriptor_collection =
                 {Descriptor(0, OtherRunUid)} \cup
                 {Descriptor(k, RunUid) : k \in 1..nd}
          /\ \E data \in [1..ne -> DataShapes] :
                 _event_collection =
                     {Event(0, 0, <<>>)} \cup
                     {Event(k, ((k - 1) % nd) + 1, data[k]) : k \in 1..ne}
          /\ _run_stop_collection =
                 {RunStop(2, OtherRunUid)} \cup
                 (IF closed THEN {RunStop(1, RunUid)} ELSE {})
    /\ _run_start_collection = {RunStart(1), RunStart(2)}
    /\ Fresh

Next ==
    \/ \E n \in Indices : Call(n)
    \/ FillEvent
    \/ GetDatum
    \/ GetResource
    \/ GetDatumCursor
    \/ EndEvents
    \/ Return
    \/ \E doc \in _datum_collection : RemoveDatum(doc)

Spec == Init /\ [][Next]_vars

\* the same program read by the client that keeps the partitions
NextReader ==
    \/ \E n \in Indices : Call(n)
    \/ FillEvent
    \/ GetDatum
    \/ GetResource
    \/ GetDatumCursor
    \/ EndEvents
    \/ ReturnToReader
    \/ \E doc \in _datum_collection : RemoveDatum(doc)

SpecReader == Init /\ [][NextReader]_vars

(***************************************************************************)
(* The run as the store holds it, and what the properties speak of.        *)
(***************************************************************************)
StoreDescriptors ==
    {doc \in _event_descriptor_collection : doc.run_start = RunUid}
StoreEvents ==
    {doc \in _event_collection :
        \E d \in StoreDescriptors : doc.descriptor = d.uid}
StoreStops == {doc \in _run_stop_collection : doc.run_start = RunUid}
Closed == StoreStops # {}

\* a payload entry by what it is: its kind and the uid of its document
Key(entry) == <<entry[1], entry[2].uid>>
Keys(seq) == [k \in 1..Len(seq) |-> Key(seq[k])]
KeysOf(kind, docs) == [k \in 1..Len(docs) |-> <<kind, docs[k].uid>>]

\* start, descriptors by time, events by time, stop if there is one
VirtualSequence ==
    <<<<"start", RunUid>>>>
    \o KeysOf("descriptor", SortByTime(StoreDescriptors))
    \o KeysOf("event", SortByTime(StoreEvents))
    \o (IF Closed
        THEN <<<<"stop", (CHOOSE doc \in StoreStops : TRUE).uid>>>>
        ELSE <<>>)

\* positions [n*P, (n+1)*P) of the virtual sequence
Window(n) ==
    SubSeq(VirtualSequence, n * PARTITION_SIZE + 1,
           Min(Len(VirtualSequence), (n + 1) * PARTITION_SIZE))

RECURSIVE Concat(_, _)
Concat(outcomes, n) ==
    IF n = 0 THEN <<>> ELSE Concat(outcomes, n - 1) \o outcomes[n].payload

Loaded == npartitions > 0
Returned == pc = "return"
Failed == pc = "raised"
Refs(doc) == {doc.data[k] : k \in 1..Len(doc.data)}
AllFilled(doc) == \A k \in 1..Len(doc.data) : doc.filled[k]
StopPositions == {k \in 1..Len(payload) : payload[k][1] = "stop"}
EventPositions == {k \in 1..Len(payload) : payload[k][1] = "event"}

\* the store holds every datum the event refers to, all of resource r
BelongsTo(doc, r) ==
    /\ r \in _resource_collection
    /\ \A id \in Refs(doc) :
           \E d \in _datum_collection : d.datum_id = id /\ d.resource = r.uid

\* the store holds every datum the event refers to and each one's resource
Resolvable(doc) ==
    \A id \in Refs(doc) :
        \E d \in _datum_collection, r \in _resource_collection :
            d.datum_id = id /\ d.resource = r.uid

\* the fetches of one prefetch round, as far as it got
PrefetchRound(id, r) ==
    << <<"datum", id>>, <<"resource", r>>, <<"datum_cursor", r>> >>

\* the retry of line 430 raised
RetryFailed == Failed /\ Len(fetches) = 3

(***************************************************************************)
(* C1: once the partitions 0..N-1 of an unchanged run have all been read,  *)
(* their concatenation is the virtual sequence: every document once, in    *)
(* order.                                                                  *)
(***************************************************************************)
C1_ConcatenationIsVirtualSequence ==
    (/\ Loaded
     /\ Len(parts) >= npartitions
     /\ \A k \in 1..npartitions : parts[k].ok)
    => Keys(Concat(parts, npartitions)) = VirtualSequence

(***************************************************************************)
(* C2: read_partition(i) returns exactly the documents at the positions    *)
(* [i*P, (i+1)*P) of the virtual sequence.                                 *)
(***************************************************************************)
C2_PartitionIsWindow ==
    Returned => Keys(payload) = Window(i)

(***************************************************************************)
(* C3: reading a partition again on an unchanged run gives the outcome the *)
(* first read gave: the same payload or the same failure.                  *)
(***************************************************************************)
C3_RereadIsIdentical ==
    [][(/\ pc \in {"return", "raised"}
        /\ pc' = "idle"
        /\ ~dirty
        /\ i < Len(parts))
       => Outcome = parts[i + 1]]_vars

(***************************************************************************)
(* C4: after a load the document count is 1 + descriptors + their events   *)
(* + 1 for a stop document, and the partition count is its quotient by P   *)
(* rounded up: at least one partition, none of them a trailing empty one.  *)
(***************************************************************************)
C4_CountAndPartitions ==
    Loaded =>
        /\ shape = 1 + Cardinality(StoreDescriptors) + Cardinality(StoreEvents)
                     + Cardinality(StoreStops)
        /\ npartitions >= 1
        /\ (npartitions - 1) * PARTITION_SIZE < shape
        /\ shape <= npartitions * PARTITION_SIZE

C4_Witness ==
    /\ Loaded
    /\ Closed
    /\ StoreEvents # {}
    /\ npartitions >= 2
    /\ shape = npartitions * PARTITION_SIZE

(***************************************************************************)
(* C5: a miss on a datum id costs one prefetch round: the datum by its id, *)
(* the resource that datum names, the batch of that resource's datum       *)
(* records, in that order and no more.  After the round the caches hold    *)
(* the resource and every datum record the store has for it, and the retry *)
(* resolves the event when the store has its datum ids, all of that        *)
(* resource, and did not change under the call.                            *)
(***************************************************************************)
C5_OneRoundPerMiss ==
    /\ Len(fetches) <= 3
    /\ Len(fetches) >= 1 =>
           /\ fetches[1][1] = "datum"
           /\ fetches[1][2] \in Refs(event)
    /\ Len(fetches) >= 2 =>
           /\ datum.datum_id = fetches[1][2]
           /\ fetches = SubSeq(PrefetchRound(datum.datum_id, datum.resource),
                               1, Len(fetches))
    /\ Len(fetches) = 3 =>
           /\ \E r \in resource_cache : r.uid = datum.resource
           /\ \A d \in _datum_collection :
                  d.resource = datum.resource => d \in datum_cache
    /\ \A r \in _resource_collection :
           (event # None /\ Refs(event) # {} /\ BelongsTo(event, r) /\ ~dirty)
           => /\ ~Failed
              /\ Len(fetches) = 3 =>
                     /\ AllFilled(event)
                     /\ \E k \in EventPositions : payload[k] = <<"event", event>>

C5_Witness ==
    /\ Len(fetches) = 3
    /\ pc = "events"
    /\ ~dirty
    /\ Len(event.data) = 2
    /\ AllFilled(event)
    /\ Cardinality(datum_cache) = 2

(***************************************************************************)
(* C6: an event whose datum ids all belong to a resource that an earlier   *)
(* miss prefetched is filled from the caches: no fetch is issued for it.   *)
(***************************************************************************)
C6_PrefetchedResourceCostsNothing ==
    pc = "get_datum" =>
        ~ \E r \in resource_cache : Refs(event) # {} /\ BelongsTo(event, r)

C6_Witness ==
    /\ pc = "events"
    /\ event # None
    /\ Refs(event) # {}
    /\ AllFilled(event)
    /\ fetches = <<>>
    /\ \E r \in resource_cache : BelongsTo(event, r)
    /\ payload[Len(payload)] = <<"event", event>>

(***************************************************************************)
(* C7: an event whose datum ids belong to two resources is resolved by the *)
(* call that meets it: the miss on the second key gets a prefetch round of *)
(* its own, so that the retry never fails the read.                        *)
(***************************************************************************)
C7_SecondKeyIsPrefetched ==
    ~ (/\ RetryFailed
       /\ ~dirty
       /\ Resolvable(event)
       /\ err.type = "UnresolvableForeignKeyError")

(***************************************************************************)
(* C8, as the specification states it: a miss of the retry fails the read  *)
(* with a ResourceIntegrityError.                                          *)
(***************************************************************************)
C8_RetryMissIsResourceIntegrityError ==
    RetryFailed => err.type = "ResourceIntegrityError"

(***************************************************************************)
(* C8, amended: the prefetch and the retry run once for a miss.  A miss of *)
(* the retry leaves read_partition as the Filler's                         *)
(* UnresolvableForeignKeyError for the key still unresolved: nothing is    *)
(* fetched after the round, the event is not emitted and the caller gets   *)
(* no partition.                                                           *)
(***************************************************************************)
C8_RetryMissIsFatal ==
    /\ Len(fetches) <= 3
    /\ RetryFailed =>
           /\ err.type = "UnresolvableForeignKeyError"
           /\ err.key \in Refs(event)
           /\ err.key \notin CachedDatumIds(datum_cache)
           /\ \A k \in EventPositions : payload[k][2].uid # event.uid
           /\ ~Outcome.ok
           /\ Outcome.payload = <<>>
           /\ ~ENABLED (GetDatum \/ GetResource \/ GetDatumCursor \/ FillEvent)

\* the datum id of the first miss is the one still unresolved
C8_Witness ==
    /\ RetryFailed
    /\ err.key = fetches[1][2]

(***************************************************************************)
(* C9: a partition index at or past the end of the run (i*P >= count)      *)
(* gives the empty list, and no error.                                     *)
(***************************************************************************)
C9_PastTheEndIsEmpty ==
    (pc # "idle" /\ i * PARTITION_SIZE >= shape)
    => /\ pc = "return" \/ (pc = "events" /\ events = <<>>)
       /\ payload = <<>>

C9_Witness ==
    /\ Returned
    /\ Closed
    /\ i > npartitions
    /\ payload = <<>>

(***************************************************************************)
(* C10: the stop document of a closed run is in the last partition only,   *)
(* once, as its last entry; no partition of an open run has a stop entry.  *)
(***************************************************************************)
C10_StopOnceAtTheEnd ==
    Returned =>
        StopPositions = IF Closed /\ i = npartitions - 1
                        THEN {Len(payload)}
                        ELSE {}

\* the last partition of a closed run, its stop entry after an event
C10_Witness ==
    /\ Returned
    /\ Closed
    /\ i = npartitions - 1
    /\ EventPositions # {}
    /\ StopPositions = {Len(payload)}

(***************************************************************************)
(* An open run grows: other clients insert new events, later in time than  *)
(* every event the run has, between two calls of read_partition (each call *)
(* loads the index).  The reader keeps the partitions it read, in order,   *)
(* before the insertion.                                                   *)
(***************************************************************************)
InsertEvents(m, data) ==
    /\ pc = "idle"
    /\ Loaded
    /\ ~Closed
    /\ grown = NotGrown
    /\ StoreDescriptors # {}
    /\ LET nd == Cardinality(StoreDescriptors)
           ne == Cardinality(StoreEvents)
       IN  _event_collection' = _event_collection \cup
               {Event(k, ((k - 1) % nd) + 1, data) : k \in (ne + 1)..(ne + m)}
    /\ grown' = [count |-> shape, by |-> m]
    /\ UNCHANGED <<PARTITION_SIZE, _run_stop_collection,
                   _event_descriptor_collection, _resource_collection,
                   _datum_collection, removals, catalogVars, fillerVars,
                   frameVars, parts, other, restVars>>

\* line 436, or the exception, to the reader of a growing run
ReturnWhileGrowing ==
    /\ EndCall
    /\ parts' = IF grown = NotGrown /\ i = Len(parts)
                THEN Append(parts, Outcome)
                ELSE parts

NextGrowth ==
    \/ \E n \in Indices : Call(n)
    \/ FillEvent
    \/ GetDatum
    \/ GetResource
    \/ GetDatumCursor
    \/ EndEvents
    \/ ReturnWhileGrowing
    \/ \E m \in 1..MaxInserted, data \in DataShapes : InsertEvents(m, data)

SpecGrowth == Init /\ [][NextGrowth]_vars

IsPrefix(s, t) == Len(s) <= Len(t) /\ SubSeq(t, 1, Len(s)) = s

\* a read, after the insertion, of a partition that was read before it
RereadAfterGrowth ==
    /\ grown # NotGrown
    /\ pc \in {"return", "raised"}
    /\ i < Len(parts)
    /\ parts[i + 1].ok

(***************************************************************************)
(* C11: when M events are inserted into an open run between two index      *)
(* loads, the document count grows by M, and a partition read again after  *)
(* the insertion gives every document the read before it gave, each at the *)
(* position it had.                                                        *)
(***************************************************************************)
C11_GrowthKeepsWhatWasEmitted ==
    /\ (grown # NotGrown /\ pc # "idle") => shape = grown.count + grown.by
    /\ RereadAfterGrowth =>
           /\ Outcome.ok
           /\ IsPrefix(parts[i + 1].payload, payload)

\* the same, of the reads after the insertion that return
C11_GrowthKeepsWhatReturns ==
    /\ (grown # NotGrown /\ pc # "idle") => shape = grown.count + grown.by
    /\ (RereadAfterGrowth /\ Returned) => IsPrefix(parts[i + 1].payload, payload)

C11_GrownPartition ==
    /\ RereadAfterGrowth
    /\ Returned
    /\ Len(payload) > Len(parts[i + 1].payload)

(***************************************************************************)
(* read_partition(n) run without interruption on the store as it is, the   *)
(* Filler's datum cache being cache: what the caller is given.             *)
(***************************************************************************)
RECURSIVE FillEvents(_, _, _)
FillEvents(cursor, cache, out) ==
    IF cursor = <<>> THEN [ok |-> TRUE, payload |-> out, err |-> NoError]
    ELSE
    LET doc == Head(cursor)
        first == FillerEvent(doc, cache)
        key == Unresolvable(doc, cache).key
        fetched == cache \cup _get_datum_cursor(_get_datum(key).resource)
        again == FillerEvent(first, fetched)
        Raised(e) == [ok |-> FALSE, payload |-> <<>>, err |-> e]
    IN  IF FirstMiss(doc, cache) = 0
        THEN FillEvents(Tail(cursor), cache, Append(out, <<"event", first>>))
        ELSE IF _get_datum(key) = None
        THEN Raised(Raise("ValueError", key))
        ELSE IF _get_resource(_get_datum(key).resource) = None
        THEN Raised(Raise("ValueError", _get_datum(key).resource))
        ELSE IF FirstMiss(first, fetched) = 0
        THEN FillEvents(Tail(cursor), fetched, Append(out, <<"event", again>>))
        ELSE Raised(Unresolvable(first, fetched))

read_partition(n, cache) ==
    LET loaded == _load
        start == n * PARTITION_SIZE
        stop == (1 + n) * PARTITION_SIZE
        lead == Leading(start, stop, loaded._offset, loaded._descriptors)
        skip == Skip(start, lead)
        limit == Limit(start, stop, lead)
        filled == FillEvents(_get_event_cursor(Uids(loaded._descriptors),
                                               skip, limit),
                             cache, lead)
    IN  IF limit <= 0
        THEN [ok |-> TRUE, payload |-> lead, err |-> NoError]
        ELSE IF filled.ok /\ EmitsStop(n, loaded.npartitions, loaded._run_stop_doc)
        THEN [filled EXCEPT
                 !.payload = Append(@, <<"stop", loaded._run_stop_doc>>)]
        ELSE filled

(***************************************************************************)
(* Two threads call read_partition on one RunCatalog.  The second call     *)
(* begins while the first is in progress; it writes the attributes of the  *)
(* catalog in its _load and reads them back, and it fills its events with  *)
(* the Filler the first call uses.  There is no lock in read_partition.    *)
(***************************************************************************)
\* line 399: _load, run by the other thread
OtherLoad(n) ==
    /\ other.pc = "idle"
    /\ pc \notin {"idle", "return", "raised"}
    /\ n # i
    /\ _run_stop_doc' = _load._run_stop_doc
    /\ _descriptors' = _load._descriptors
    /\ _offset' = _load._offset
    /\ shape' = _load.count
    /\ npartitions' = _load.npartitions
    /\ other' = [NoCall EXCEPT !.pc = "loaded", !.i = n]
    /\ UNCHANGED <<PARTITION_SIZE, storeVars, fillerVars, frameVars, parts,
                   grown, restVars>>

\* lines 400-416
OtherQuery ==
    /\ other.pc = "loaded"
    /\ LET start == other.i * PARTITION_SIZE
           stop == (1 + other.i) * PARTITION_SIZE
           lead == Leading(start, stop, _offset, _descriptors)
           skip == Skip(start, lead)
           limit == Limit(start, stop, lead)
       IN  other' = [other EXCEPT
               !.payload = lead,
               !.events = IF limit > 0
                          THEN _get_event_cursor(Uids(_descriptors), skip, limit)
                          ELSE <<>>,
               !.pc = IF limit > 0 THEN "events" ELSE "return"]
    /\ UNCHANGED <<PARTITION_SIZE, storeVars, catalogVars, fillerVars,
                   frameVars, parts, grown, restVars>>

\* lines 417-421 and 431
OtherFillEvent ==
    /\ other.pc = "events"
    /\ other.events # <<>>
    /\ LET doc == Head(other.events)
           hit == FirstMiss(doc, datum_cache) = 0
           filled == FillerEvent(doc, datum_cache)
       IN  other' = [other EXCEPT
               !.events = Tail(@),
               !.event = filled,
               !.fetches = <<>>,
               !.payload = IF hit THEN Append(@, <<"event", filled>>) ELSE @,
               !.err = IF hit THEN NoError ELSE Unresolvable(doc, datum_cache),
               !.pc = IF hit THEN "events" ELSE "get_datum"]
    /\ UNCHANGED <<PARTITION_SIZE, storeVars, catalogVars, fillerVars,
                   frameVars, parts, grown, restVars>>

\* line 422
OtherGetDatum ==
    /\ other.pc = "get_datum"
    /\ LET found == _get_datum(other.err.key)
       IN  other' = [other EXCEPT
               !.fetches = Append(@, <<"datum", other.err.key>>),
               !.err = IF found = None
                       THEN Raise("ValueError", other.err.key) ELSE @,
               !.datum = IF found = None THEN @ ELSE found,
               !.pc = IF found = None THEN "raised" ELSE "get_resource"]
    /\ UNCHANGED <<PARTITION_SIZE, storeVars, catalogVars, fillerVars,
                   frameVars, parts, grown, restVars>>

\* lines 423-425
OtherGetResource ==
    /\ other.pc = "get_resource"
    /\ LET found == _get_resource(other.datum.resource)
       IN  /\ other' = [other EXCEPT
                  !.fetches = Append(@, <<"resource", other.datum.resource>>),
                  !.err = IF found = None
                          THEN Raise("ValueError", other.datum.resource) ELSE @,
                  !.pc = IF found = None THEN "raised" ELSE "get_datum_cursor"]
           /\ resource_cache' = IF found = None THEN resource_cache
                                ELSE resource_cache \cup {found}
    /\ UNCHANGED <<PARTITION_SIZE, storeVars, catalogVars, datum_cache,
                   frameVars, parts, grown, restVars>>

\* lines 427-431
OtherGetDatumCursor ==
    /\ other.pc = "get_datum_cursor"
    /\ datum_cache' = datum_cache \cup _get_datum_cursor(other.datum.resource)
    /\ LET hit == FirstMiss(other.event, datum_cache') = 0
           filled == FillerEvent(other.event, datum_cache')
       IN  other' = [other EXCEPT
               !.fetches = Append(@, <<"datum_cursor", other.datum.resource>>),
               !.event = filled,
               !.payload = IF hit THEN Append(@, <<"event", filled>>) ELSE @,
               !.err = IF hit THEN NoError
                       ELSE Unresolvable(other.event, datum_cache'),
               !.pc = IF hit THEN "events" ELSE "raised"]
    /\ UNCHANGED <<PARTITION_SIZE, storeVars, catalogVars, resource_cache,
                   frameVars, parts, grown, restVars>>

\* lines 432-433
OtherEndEvents ==
    /\ other.pc = "events"
    /\ other.events = <<>>
    /\ other' = [other EXCEPT
           !.payload = IF EmitsStop(other.i, npartitions, _run_stop_doc)
                       THEN Append(@, <<"stop", _run_stop_doc>>)
                       ELSE @,
           !.pc = "return"]
    /\ UNCHANGED <<PARTITION_SIZE, storeVars, catalogVars, fillerVars,
                   frameVars, parts, grown, restVars>>

\* what the other thread's caller is given
OtherOutcome ==
    IF other.pc = "return"
    THEN [ok |-> TRUE, payload |-> other.payload, err |-> NoError]
    ELSE [ok |-> FALSE, payload |-> <<>>, err |-> other.err]

\* a longer run, its events all of one shape
InitRun(sizes, shapes) ==
    /\ PARTITION_SIZE \in sizes
    /\ \E nd \in 1..MaxDescriptors, ne \in 0..(MaxEvents + 2),
          closed \in BOOLEAN, data \in shapes :
          /\ _event_descriptor_collection =
                 {Descriptor(0, OtherRunUid)} \cup
                 {Descriptor(k, RunUid) : k \in 1..nd}
          /\ _event_collection =
                 {Event(0, 0, <<>>)} \cup
                 {Event(k, ((k - 1) % nd) + 1, data) : k \in 1..ne}
          /\ _run_stop_collection =
                 {RunStop(2, OtherRunUid)} \cup
                 (IF closed THEN {RunStop(1, RunUid)} ELSE {})
    /\ _run_start_collection = {RunStart(1), RunStart(2)}
    /\ Fresh

InitLonger == InitRun(PartitionSizes, DataShapes)

\* each thread makes one call, on a run nobody changes
NextConcurrent ==
    \/ \E n \in Indices : Call(n)
    \/ FillEvent
    \/ GetDatum
    \/ GetResource
    \/ GetDatumCursor
    \/ EndEvents
    \/ \E n \in Indices : OtherLoad(n)
    \/ OtherQuery
    \/ OtherFillEvent
    \/ OtherGetDatum
    \/ OtherGetResource
    \/ OtherGetDatumCursor
    \/ OtherEndEvents

SpecConcurrent == InitLonger /\ [][NextConcurrent]_vars

(***************************************************************************)
(* C12: of two calls for different partitions that run concurrently on one *)
(* RunCatalog, over an unchanged run, each gives its caller what it gives  *)
(* when it runs alone.                                                     *)
(***************************************************************************)
C12_ConcurrentReadsDoNotInterfere ==
    /\ (pc \in {"return", "raised"} /\ other.pc # "idle")
       => Outcome = read_partition(i, {})
    /\ other.pc \in {"return", "raised"}
       => OtherOutcome = read_partition(other.i, {})

\* the same, of the first call while no other call runs beside it
C12_AloneIsUninterrupted ==
    (pc \in {"return", "raised"} /\ other.pc = "idle")
    => Outcome = read_partition(i, {})

\* both calls returned events
C12_BothReturnedEvents ==
    /\ Returned
    /\ other.pc = "return"
    /\ EventPositions # {}
    /\ \E k \in 1..Len(other.payload) : other.payload[k][1] = "event"

(***************************************************************************)
(* C13: of two concurrent calls that miss on datum ids of one resource,    *)
(* only one at a time is between its datum fetch and the registration of   *)
(* the batch: the batch of a resource is not fetched by both.              *)
(***************************************************************************)
C13_OneCacheFillPerResource ==
    /\ ~ (/\ pc \in {"get_resource", "get_datum_cursor"}
          /\ other.pc \in {"get_resource", "get_datum_cursor"}
          /\ datum.resource = other.datum.resource)
    /\ \A r \in _resource_collection :
           ~ (/\ Len(fetches) = 3 /\ fetches[3] = <<"datum_cursor", r.uid>>
              /\ Len(other.fetches) = 3
              /\ other.fetches[3] = <<"datum_cursor", r.uid>>)

(***************************************************************************)
(* RunCatalog._load, lines 359-389: one MongoEventStream entry for each    *)
(* stream name of the run's descriptors.                                   *)
(***************************************************************************)
\* itertools.groupby(self._descriptors, key=lambda d: d.get('name')): the
\* runs of consecutive descriptors of one name
RECURSIVE groupby(_)
groupby(docs) ==
    IF docs = <<>> THEN <<>>
    ELSE LET doc == Head(docs)
             rest == groupby(Tail(docs))
         IN  IF rest # <<>> /\ rest[1].name = doc.name
             THEN <<[name |-> doc.name, docs |-> <<doc>> \o rest[1].docs]>>
                  \o Tail(rest)
             ELSE <<[name |-> doc.name, docs |-> <<doc>>]>> \o rest

StreamNames(docs) == {docs[k].name : k \in 1..Len(docs)}

\* self._entries[stream_name] = ...: the last group of a name is the entry's
_entries(docs, name) ==
    LET groups == groupby(docs)
        last == CHOOSE k \in 1..Len(groups) :
                    /\ groups[k].name = name
                    /\ \A j \in (k + 1)..Len(groups) : groups[j].name # name
    IN  groups[last].docs

(***************************************************************************)
(* MongoEventStream over intake_xarray's DataSourceMixin.  The dataset is  *)
(* made by documents_to_xarray, an external collaborator: on a time axis   *)
(* of one point for each event, in the order of the event documents, with  *)
(* seq_num and uid as arrays along it.  made numbers the datasets of one   *)
(* stream, the first being 1.  The resolution of the events' datum ids by  *)
(* documents_to_xarray is left out.                                        *)
(***************************************************************************)
documents_to_xarray(event_docs, made) ==
    [made |-> made,
     time |-> [k \in 1..Len(event_docs) |-> event_docs[k].time],
     uid |-> [k \in 1..Len(event_docs) |-> event_docs[k].uid],
     seq_num |-> [k \in 1..Len(event_docs) |-> event_docs[k].seq_num],
     data |-> [k \in 1..Len(event_docs) |-> event_docs[k].data]]

\* lines 499-515; the event cursor is asked for with no skip and no limit
_open_dataset(st) ==
    [st EXCEPT
        !._ds = documents_to_xarray(
                    _get_event_cursor(Uids(st.descriptors), 0,
                                      Cardinality(_event_collection)),
                    st.opened + 1),
        !.opened = @ + 1]

\* variant: the dataset is opened at every call
_get_schema_reopening(st) == _open_dataset(st)

\* DataSourceMixin._get_schema
_get_schema(st) == IF st._ds = None THEN _open_dataset(st) ELSE st

\* intake.source.base.DataSource._load_metadata: the schema is asked for
\* once and kept
_load_metadata(st) ==
    IF st._schema = "None"
    THEN [_get_schema(st) EXCEPT !._schema = "Schema"]
    ELSE st

AttributeError == [type |-> "AttributeError", key |-> "None"]

\* catalog[name].get(): MongoEventStream.__init__, lines 457-489, on the
\* entry that _load made
GetStream(name) ==
    /\ stream = NoStream
    /\ pc = "idle"
    /\ name \in StreamNames(_load._descriptors)
    /\ _run_stop_doc' = _load._run_stop_doc
    /\ _descriptors' = _load._descriptors
    /\ _offset' = _load._offset
    /\ shape' = _load.count
    /\ npartitions' = _load.npartitions
    /\ stream' = [NoStream EXCEPT
           !.name = name,
           !.descriptors = _entries(_load._descriptors, name)]
    /\ UNCHANGED <<PARTITION_SIZE, storeVars, fillerVars, frameVars, parts,
                   grown, other, gen, faults, catVars, run_b>>

\* source._get_schema()
GetSchema ==
    /\ stream # NoStream
    /\ stream.accesses < MaxAccesses
    /\ stream' = [_get_schema(stream) EXCEPT
           !.accesses = @ + 1,
           !.result = [type |-> "Schema", key |-> "None"]]
    /\ UNCHANGED <<PARTITION_SIZE, storeVars, catalogVars, fillerVars,
                   frameVars, parts, grown, other, gen, faults, catVars, run_b>>

\* source.read(): self._load_metadata(); return self._ds.load()
Read ==
    /\ stream # NoStream
    /\ stream.accesses < MaxAccesses
    /\ LET st == _load_metadata(stream)
       IN  stream' = [st EXCEPT
               !.accesses = @ + 1,
               !.result = IF st._ds = None THEN AttributeError ELSE st._ds]
    /\ UNCHANGED <<PARTITION_SIZE, storeVars, catalogVars, fillerVars,
                   frameVars, parts, grown, other, gen, faults, catVars, run_b>>

\* source.close(): self._ds.close(); self._ds = None
Close ==
    /\ stream # NoStream
    /\ stream.closes < MaxCloses
    /\ stream' = IF stream._ds = None
                 THEN [stream EXCEPT !.closes = @ + 1,
                                     !.result = AttributeError]
                 ELSE [stream EXCEPT !.closes = @ + 1,
                                     !._ds = None,
                                     !.result = None]
    /\ UNCHANGED <<PARTITION_SIZE, storeVars, catalogVars, fillerVars,
                   frameVars, parts, grown, other, gen, faults, catVars, run_b>>

(***************************************************************************)
(* xarray_to_event_gen, a generator over the time axis of a dataset.       *)
(***************************************************************************)
\* a Python slice [start:stop] of an array
slice(array, start, stop) == SubSeq(array, start + 1, Min(Len(array), stop))

\* variant: only the start indices of whole pages
range_of_whole_pages(stop, step) ==
    {k * step : k \in {j \in 0..stop : j * step + step <= stop}}

\* range(0, stop, step), as the set of its values
range(stop, step) == {k * step : k \in {j \in 0..stop : j * step < stop}}

\* lines 557-576: the page that starts at start_idx; the names with a ':'
\* that the code drops are left out
event_page(data_xarr, ts_xarr, start_idx, page_size) ==
    LET stop_idx == start_idx + page_size
    IN  [data |-> slice(data_xarr.data, start_idx, stop_idx),
         timestamps |-> slice(ts_xarr.data, start_idx, stop_idx),
         time |-> slice(data_xarr.time, start_idx, stop_idx),
         uid |-> slice(data_xarr.uid, start_idx, stop_idx),
         seq_num |-> slice(data_xarr.seq_num, start_idx, stop_idx),
         filled |-> <<>>]

\* xarray_to_event_gen(data_xarr, ts_xarr, page_size) is called, on the
\* stream's dataset and a dataset of timestamps along the same time axis
Paginate(page_size) ==
    /\ gen = NoGen
    /\ stream._ds # None
    /\ gen' = [page_size |-> page_size, data_xarr |-> stream._ds,
               ts_xarr |-> stream._ds,
               start_idx |-> 0, pages |-> <<>>, done |-> FALSE]
    /\ UNCHANGED <<PARTITION_SIZE, storeVars, catalogVars, fillerVars,
                   frameVars, parts, grown, other, stream, faults, catVars, run_b>>

\* next(generator): the next page, or the end of the loop of line 556
NextPage ==
    /\ gen # NoGen
    /\ ~gen.done
    /\ gen' = IF gen.start_idx \in range(Len(gen.data_xarr.time), gen.page_size)
              THEN [gen EXCEPT
                       !.pages = Append(@, event_page(gen.data_xarr,
                                                      gen.ts_xarr,
                                                      gen.start_idx,
                                                      gen.page_size)),
                       !.start_idx = @ + gen.page_size]
              ELSE [gen EXCEPT !.done = TRUE]
    /\ UNCHANGED <<PARTITION_SIZE, storeVars, catalogVars, fillerVars,
                   frameVars, parts, grown, other, stream, faults, catVars, run_b>>

\* a run without datum references, read as streams
InitStream == InitRun({MaxPartitionSize}, {<<>>})

NextStream ==
    \/ \E name \in {"primary", "baseline"} : GetStream(name)
    \/ GetSchema
    \/ Read
    \/ Close
    \/ \E page_size \in 1..MaxPageSize : Paginate(page_size)
    \/ NextPage

SpecStream == InitStream /\ [][NextStream]_vars

(***************************************************************************)
(* C14: the stream's dataset is made lazily and once.  Constructing the    *)
(* stream opens nothing; from the first schema or read access on, until    *)
(* close(), _open_dataset has run exactly once and every read returns the  *)
(* dataset it made.                                                        *)
(***************************************************************************)
C14_DatasetOpenedOnce ==
    (stream # NoStream /\ stream.closes = 0) =>
        /\ stream.accesses = 0 =>
               /\ stream.opened = 0
               /\ stream._ds = None
        /\ stream.accesses > 0 =>
               /\ stream.opened = 1
               /\ stream._ds # None
               /\ stream._ds.made = 1
               /\ stream.result \in {stream._ds, [type |-> "Schema", key |-> "None"]}

\* the dataset of a stream with events, returned by the last of several reads
C14_Witness ==
    /\ stream.closes = 0
    /\ stream.accesses = MaxAccesses
    /\ stream.opened = 1
    /\ stream.result = stream._ds
    /\ Len(stream._ds.time) > 1

(***************************************************************************)
(* C15: over a time axis of n points the generator yields ceil(n /         *)
(* page_size) pages; page k is the window [k * page_size, min((k + 1) *    *)
(* page_size, n)) of every array, so that the pages are disjoint, in       *)
(* order, cover the axis, have page_size entries each but for the last,    *)
(* and each page's arrays are equally long.                                *)
(***************************************************************************)
PageWindow(array, k, page_size) ==
    SubSeq(array, (k - 1) * page_size + 1, Min(k * page_size, Len(array)))

RECURSIVE PagesConcat(_, _, _)
PagesConcat(pages, field, n) ==
    IF n = 0 THEN <<>>
    ELSE PagesConcat(pages, field, n - 1) \o pages[n][field]

C15_PagesAreWindows ==
    gen # NoGen =>
        LET n == Len(gen.data_xarr.time)
            count == ceil(n, gen.page_size)
        IN  /\ Len(gen.pages) <= count
            /\ gen.done => Len(gen.pages) = count
            /\ \A k \in 1..Len(gen.pages) :
                   /\ \A field \in {"time", "uid", "seq_num", "data"} :
                          gen.pages[k][field] =
                              PageWindow(gen.data_xarr[field], k, gen.page_size)
                   /\ gen.pages[k].timestamps =
                          PageWindow(gen.ts_xarr.data, k, gen.page_size)
                   /\ \A field \in {"uid", "seq_num", "data", "timestamps"} :
                          Len(gen.pages[k][field]) = Len(gen.pages[k].time)
                   /\ Len(gen.pages[k].time) >= 1
                   /\ k < count => Len(gen.pages[k].time) = gen.page_size
                   /\ gen.pages[k].filled = <<>>
            /\ gen.done =>
                   \A field \in {"time", "uid", "seq_num"} :
                       PagesConcat(gen.pages, field, Len(gen.pages)) =
                           gen.data_xarr[field]

\* the generator is exhausted, its last page shorter than the one before
C15_Witness ==
    /\ gen # NoGen
    /\ gen.done
    /\ Len(gen.pages) >= 2
    /\ Len(gen.pages[Len(gen.pages)].time) < gen.page_size
    /\ gen.page_size > 1

(***************************************************************************)
(* A client reads the partitions of the run in order and, beside that,     *)
(* reads one of its streams and pages the stream's dataset.                *)
(***************************************************************************)
InitRoundTrip == InitRun(PartitionSizes, {<<"a">>})

NextRoundTrip ==
    \/ \E n \in Indices : Call(n)
    \/ FillEvent
    \/ GetDatum
    \/ GetResource
    \/ GetDatumCursor
    \/ EndEvents
    \/ ReturnToReader
    \/ \E name \in {"primary", "baseline"} : GetStream(name)
    \/ Read
    \/ \E page_size \in 1..MaxPageSize : Paginate(page_size)
    \/ NextPage

SpecRoundTrip == InitRoundTrip /\ [][NextRoundTrip]_vars

\* the partitions 0..N-1 have all been read, and the pages all yielded
RoundTripDone ==
    /\ gen # NoGen
    /\ gen.done
    /\ Loaded
    /\ Len(parts) >= npartitions
    /\ \A k \in 1..npartitions : parts[k].ok

\* the events of the stream among the documents of the partitions, in order
StreamEventsRead ==
    LET OfStream(entry) ==
            /\ entry[1] = "event"
            /\ entry[2].descriptor \in Uids(stream.descriptors)
    IN  SelectSeq(Concat(parts, npartitions), OfStream)

(***************************************************************************)
(* C16: round trip.  The pages of a stream's dataset, concatenated, have   *)
(* the time, uid and seq_num of the stream's events as the partition reads *)
(* 0..N-1 of the run give them, element by element.                        *)
(***************************************************************************)
C16_PagesMatchPartitions ==
    RoundTripDone =>
        \A field \in {"time", "uid", "seq_num"} :
            PagesConcat(gen.pages, field, Len(gen.pages)) =
                [k \in 1..Len(StreamEventsRead) |-> StreamEventsRead[k][2][field]]

(***************************************************************************)
(* The store fails to serve a fetch of read_partition: the event cursor,   *)
(* the datum lookup, the resource lookup or the cursor of the batch raises *)
(* a pymongo error, which nothing in read_partition catches.  A batch      *)
(* cursor that fails has handed part of the batch to the Filler.           *)
(***************************************************************************)
FetchFails(batch) ==
    /\ Cardinality(faults) < MaxFaults
    /\ pc \in {"events", "get_datum", "get_resource", "get_datum_cursor"}
    /\ batch \subseteq (IF pc = "get_datum_cursor"
                        THEN _get_datum_cursor(datum.resource)
                        ELSE {})
    /\ datum_cache' = datum_cache \cup batch
    /\ err' = Raise("PyMongoError", pc)
    /\ pc' = "raised"
    /\ faults' = faults \cup {i}
    /\ UNCHANGED <<PARTITION_SIZE, storeVars, catalogVars, resource_cache,
                   i, payload, events, event, datum, fetches, dirty, parts,
                   grown, other, streamVars, catVars, run_b>>

NextFaulty ==
    \/ \E n \in Indices : Call(n)
    \/ FillEvent
    \/ GetDatum
    \/ GetResource
    \/ GetDatumCursor
    \/ EndEvents
    \/ Return
    \/ \E batch \in SUBSET _datum_collection : FetchFails(batch)

SpecFaulty == Init /\ [][NextFaulty]_vars

\* the call in progress has ended on a fetch the store could not serve
FetchFailed == Failed /\ err.type = "PyMongoError"

\* a call for a partition whose read failed on a fetch has ended, the store
\* having served every fetch of this call
RetryEnded ==
    /\ pc \in {"return", "raised"}
    /\ i \in faults
    /\ err.type # "PyMongoError"

(***************************************************************************)
(* C17: a read that a fetch fails gives its caller the exception and no    *)
(* list of documents, and a later read of the same partition, the store    *)
(* healthy and the run unchanged, returns the complete partition.          *)
(***************************************************************************)
C17_FailsWholeAndRetryCompletes ==
    /\ FetchFailed => (~Outcome.ok /\ Outcome.payload = <<>>)
    /\ RetryEnded => (Outcome.ok /\ Keys(payload) = Window(i))

\* the same, the retry measured by what it gives when nothing failed before
C17_RetryReturns ==
    RetryEnded => Outcome.ok

(***************************************************************************)
(* MongoMetadataStoreCatalog.__init__, step by step.  A URI names a        *)
(* database or none; get_database() raises pymongo's ConfigurationError    *)
(* for a URI that names none.                                              *)
(***************************************************************************)
Uris == {[database |-> "None"], [database |-> "mds"]}

Collections == {"run_start", "run_stop", "event_descriptor", "event",
                "resource", "datum"}

\* lines 59-66: the URIs are kept and the two clients made
Construct(metadatastore_uri, asset_registry_uri) ==
    /\ catalog = NoCatalog
    /\ catalog' = [constructed |-> FALSE, at |-> "metadatastore",
                   _metadatastore_uri |-> metadatastore_uri,
                   _asset_registry_uri |-> asset_registry_uri,
                   collections |-> {}, filler |-> FALSE, err |-> NoError]
    /\ UNCHANGED <<PARTITION_SIZE, storeVars, catalogVars, fillerVars,
                   frameVars, parts, grown, other, streamVars, faults, run_b,
                   _run_start_collection, lookup>>

\* lines 68-77
GetMetadatastoreDatabase ==
    /\ catalog # NoCatalog
    /\ catalog.at = "metadatastore"
    /\ catalog' = IF catalog._metadatastore_uri.database = "None"
                  THEN [catalog EXCEPT
                           !.at = "raised",
                           !.err = Raise("ValueError", "metadatastore_client")]
                  ELSE [catalog EXCEPT !.at = "asset_registry"]
    /\ UNCHANGED <<PARTITION_SIZE, storeVars, catalogVars, fillerVars,
                   frameVars, parts, grown, other, streamVars, faults, run_b,
                   _run_start_collection, lookup>>

\* variant: the asset registry falls back on a default database
GetAssetRegistryDatabaseByDefault ==
    /\ catalog # NoCatalog
    /\ catalog.at = "asset_registry"
    /\ catalog' = [catalog EXCEPT !.at = "collections"]
    /\ UNCHANGED <<PARTITION_SIZE, storeVars, catalogVars, fillerVars,
                   frameVars, parts, grown, other, streamVars, faults, run_b,
                   _run_start_collection, lookup>>

\* lines 78-83
GetAssetRegistryDatabase ==
    /\ catalog # NoCatalog
    /\ catalog.at = "asset_registry"
    /\ catalog' = IF catalog._asset_registry_uri.database = "None"
                  THEN [catalog EXCEPT
                           !.at = "raised",
                           !.err = Raise("ValueError", "asset_registry_client")]
                  ELSE [catalog EXCEPT !.at = "collections"]
    /\ UNCHANGED <<PARTITION_SIZE, storeVars, catalogVars, fillerVars,
                   frameVars, parts, grown, other, streamVars, faults, run_b,
                   _run_start_collection, lookup>>

\* lines 85-91: the collection handles
GetCollections ==
    /\ catalog # NoCatalog
    /\ catalog.at = "collections"
    /\ catalog' = [catalog EXCEPT !.at = "filler", !.collections = Collections]
    /\ UNCHANGED <<PARTITION_SIZE, storeVars, catalogVars, fillerVars,
                   frameVars, parts, grown, other, streamVars, faults, run_b,
                   _run_start_collection, lookup>>

\* lines 93-98: the Filler, and the end of the constructor
MakeFiller ==
    /\ catalog # NoCatalog
    /\ catalog.at = "filler"
    /\ catalog' = [catalog EXCEPT
           !.at = "done", !.filler = TRUE, !.constructed = TRUE]
    /\ UNCHANGED <<PARTITION_SIZE, storeVars, catalogVars, fillerVars,
                   frameVars, parts, grown, other, streamVars, faults, run_b,
                   _run_start_collection, lookup>>

(***************************************************************************)
(* Entries, the mapping of the catalog over the run_start collection, with *)
(* the query {} of a catalog that was not searched.  A key is a uid        *)
(* string, an integer, or the string of an integer.                        *)
(***************************************************************************)
True == [type |-> "True", key |-> "None"]
False == [type |-> "False", key |-> "None"]

\* sort('time', pymongo.DESCENDING)
RECURSIVE SortByTimeDescending(_)
SortByTimeDescending(S) ==
    IF S = {} THEN <<>>
    ELSE LET m == CHOOSE d \in S : \A o \in S : d.time >= o.time
         IN  <<m>> \o SortByTimeDescending(S \ {m})

\* cursor.limit(n): a negative n limits to -n documents, in one batch
limit(cursor, n) ==
    SubSeq(cursor, 1, Min(Len(cursor), IF n < 0 THEN 0 - n ELSE n))

\* lines 220-223: int(name), the ValueError of a uid string passed over
int(name) ==
    IF name.kind = "uid" THEN name
    ELSE [kind |-> "int", value |-> name.value]

\* lines 218-245; an unpacking that finds no document raises ValueError
__getitem__(key) ==
    LET name == int(key)
        newest == limit(SortByTimeDescending(_run_start_collection), name.value)
        scanned == limit(SortByTimeDescending(
                             {doc \in _run_start_collection :
                                  doc.scan_id = name.value}), 1)
        found == {doc \in _run_start_collection : doc.uid = name.value}
        Entry(doc) == [type |-> "Entry", key |-> doc.uid]
    IN  IF name.kind = "int"
        THEN IF name.value < 0
             THEN IF newest = <<>>
                  THEN Raise("ValueError", "not enough values to unpack")
                  ELSE Entry(newest[Len(newest)])
             ELSE IF scanned = <<>>
                  THEN Raise("ValueError", "not enough values to unpack")
                  ELSE Entry(scanned[1])
        ELSE IF found = {}
             THEN Raise("KeyError", "name")
             ELSE Entry(CHOOSE doc \in found : TRUE)

\* lines 247-254: only a KeyError is caught
__contains__(key) ==
    LET got == __getitem__(key)
    IN  IF got.type = "KeyError" THEN False
        ELSE IF got.type = "Entry" THEN True
        ELSE got

Keys_ ==
    {[kind |-> "uid", value |-> <<"run_start", k>>] : k \in 1..MaxRuns} \cup
    {[kind |-> kind, value |-> n] :
        kind \in {"int", "numeric string"}, n \in (0 - MaxRuns)..MaxRuns}

\* catalog[name]
GetItem(name) ==
    /\ catalog # NoCatalog
    /\ catalog.constructed
    /\ lookup' = [op |-> "__getitem__", key |-> name,
                  result |-> __getitem__(name)]
    /\ UNCHANGED <<PARTITION_SIZE, storeVars, catalogVars, fillerVars,
                   frameVars, parts, grown, other, streamVars, faults, run_b,
                   _run_start_collection, catalog>>

\* name in catalog
Contains(name) ==
    /\ catalog # NoCatalog
    /\ catalog.constructed
    /\ lookup' = [op |-> "__contains__", key |-> name,
                  result |-> __contains__(name)]
    /\ UNCHANGED <<PARTITION_SIZE, storeVars, catalogVars, fillerVars,
                   frameVars, parts, grown, other, streamVars, faults, run_b,
                   _run_start_collection, catalog>>

\* a store of up to MaxRuns runs, and no catalog yet
InitCatalog ==
    /\ PARTITION_SIZE = MaxPartitionSize
    /\ _event_descriptor_collection = {Descriptor(0, OtherRunUid)}
    /\ _event_collection = {Event(0, 0, <<>>)}
    /\ _run_stop_collection = {RunStop(2, OtherRunUid)}
    /\ _run_start_collection \in SUBSET {RunStart(k) : k \in 1..MaxRuns}
    /\ Fresh

NextCatalog ==
    \/ \E metadatastore_uri \in Uris, asset_registry_uri \in Uris :
           Construct(metadatastore_uri, asset_registry_uri)
    \/ GetMetadatastoreDatabase
    \/ GetAssetRegistryDatabase
    \/ GetCollections
    \/ MakeFiller
    \/ \E name \in Keys_ : GetItem(name)
    \/ \E name \in Keys_ : Contains(name)

SpecCatalog == InitCatalog /\ [][NextCatalog]_vars

\* no run of the collection is the one the key names
NoSuchRun(key) ==
    IF key.kind = "uid"
    THEN \A doc \in _run_start_collection : doc.uid # key.value
    ELSE IF key.value >= 0
    THEN \A doc \in _run_start_collection : doc.scan_id # key.value
    ELSE Cardinality(_run_start_collection) < 0 - key.value

(***************************************************************************)
(* C18: a lookup of a run that does not exist raises KeyError and nothing  *)
(* else, and contains() answers False, whatever the key is: a uid, a       *)
(* scan_id (as an integer or as its string) or a negative index.           *)
(***************************************************************************)
C18_MissingRunIsKeyError ==
    (lookup # NoLookup /\ NoSuchRun(lookup.key)) =>
        /\ lookup.op = "__getitem__" => lookup.result.type = "KeyError"
        /\ lookup.op = "__contains__" => lookup.result = False

\* the same, of uid keys only
C18_MissingUidIsKeyError ==
    (lookup # NoLookup /\ NoSuchRun(lookup.key) /\ lookup.key.kind = "uid") =>
        /\ lookup.op = "__getitem__" => lookup.result.type = "KeyError"
        /\ lookup.op = "__contains__" => lookup.result = False

(***************************************************************************)
(* C19: the constructor raises its ValueError, for a URI that names no     *)
(* database, before it has made a collection handle or the Filler; with    *)
(* two URIs that name a database it runs to its end.                       *)
(***************************************************************************)
C19_NoDatabaseFailsConstruction ==
    catalog # NoCatalog =>
        LET unnamed == \/ catalog._metadatastore_uri.database = "None"
                       \/ catalog._asset_registry_uri.database = "None"
        IN  /\ unnamed =>
                   /\ catalog.at \in {"metadatastore", "asset_registry", "raised"}
                   /\ catalog.collections = {}
                   /\ ~catalog.filler
                   /\ ~catalog.constructed
            /\ catalog.at = "raised" =>
                   /\ unnamed
                   /\ catalog.err.type = "ValueError"
                   /\ ~ENABLED (GetCollections \/ MakeFiller)
            /\ catalog.constructed <=> catalog.at = "done"
            /\ catalog.at = "done" =>
                   /\ catalog.collections = Collections
                   /\ catalog.filler

\* the asset registry URI is the one that names no database
C19_Witness ==
    /\ catalog # NoCatalog
    /\ catalog.at = "raised"
    /\ catalog._metadatastore_uri.database # "None"
    /\ catalog.err.key = "asset_registry_client"

(***************************************************************************)
(* C20: a call of read_partition(i) asks for events only if limit = P -    *)
(* emitted > 0, emitted being the start and descriptor entries it placed   *)
(* in the partition, and then the cursor is the one of skip = max(0, i*P - *)
(* offset) and that limit, with offset = 1 + the number of descriptors.    *)
(***************************************************************************)
C20_SkipAndLimit ==
    [][(pc = "idle" /\ pc' \in {"events", "return"}) =>
          LET start == i' * PARTITION_SIZE
              off == 1 + Len(_descriptors')
              emitted == Len(payload')
              lim == PARTITION_SIZE - emitted
          IN  /\ pc' = "events" <=> lim > 0
              /\ pc' = "return" => events' = <<>>
              /\ pc' = "events" =>
                     events' = _get_event_cursor(Uids(_descriptors'),
                                                 Max(0, start - off), lim)
       ]_vars

(***************************************************************************)
(* Runs whose descriptors carry any stream names, so that descriptors of   *)
(* one name may follow one another or interleave with those of the other   *)
(* name, and whose events go to the descriptors by turns, so that an event *)
(* of a later descriptor may be earlier than one of an earlier descriptor. *)
(***************************************************************************)
MaxNamed == 3

InitInterleaved ==
    /\ PARTITION_SIZE = MaxPartitionSize
    /\ \E nd \in 1..MaxNamed, ne \in 0..(MaxEvents + 2), closed \in BOOLEAN :
       \E names \in [1..nd -> {"primary", "baseline"}] :
          /\ _event_descriptor_collection =
                 {Descriptor(0, OtherRunUid)} \cup
                 {[Descriptor(k, RunUid) EXCEPT !.name = names[k]] :
                      k \in 1..nd}
          /\ _event_collection =
                 {Event(0, 0, <<>>)} \cup
                 {Event(k, ((k - 1) % nd) + 1, <<>>) : k \in 1..ne}
          /\ _run_stop_collection =
                 {RunStop(2, OtherRunUid)} \cup
                 (IF closed THEN {RunStop(1, RunUid)} ELSE {})
    /\ _run_start_collection = {RunStart(1), RunStart(2)}
    /\ Fresh

SpecInterleaved == InitInterleaved /\ [][NextStream]_vars

\* the documents of a sequence that carry a stream name, in their order
Named(docs, name) ==
    LET HasName(doc) == doc.name = name
    IN  SelectSeq(docs, HasName)

(***************************************************************************)
(* C21: the entry of a stream name carries all the descriptors of the run  *)
(* with that name, in time order, and no others, however the descriptors   *)
(* of the names follow one another in time.                                *)
(***************************************************************************)
C21_EntryHasAllDescriptorsOfName ==
    stream # NoStream =>
        stream.descriptors = Named(_load._descriptors, stream.name)

\* the same, for the runs whose descriptors of one name are consecutive
C21_ConsecutiveNamesAreGrouped ==
    (stream # NoStream /\ Len(groupby(_load._descriptors)) =
                              Cardinality(StreamNames(_load._descriptors))) =>
        stream.descriptors = Named(_load._descriptors, stream.name)

\* the events of the descriptors of a sequence: those of the first
\* descriptor in time order, then those of the second, and so on
RECURSIVE InDescriptorOrder(_)
InDescriptorOrder(descriptors) ==
    IF descriptors = <<>> THEN <<>>
    ELSE SortByTime({doc \in _event_collection :
                         doc.descriptor = Head(descriptors).uid})
         \o InDescriptorOrder(Tail(descriptors))

(***************************************************************************)
(* C22: the events from which a stream's dataset is made are the events of *)
(* the stream's first descriptor in time order, then those of its second   *)
(* descriptor in time order, and so on, also when an event of a later      *)
(* descriptor is earlier than an event of an earlier descriptor.           *)
(***************************************************************************)
C22_EventsInDescriptorOrder ==
    (stream # NoStream /\ stream._ds # None) =>
        stream._ds.uid =
            [k \in 1..Len(InDescriptorOrder(stream.descriptors)) |->
                 InDescriptorOrder(stream.descriptors)[k].uid]

\* the same, for the streams of one descriptor
C22_OneDescriptorInTimeOrder ==
    (stream # NoStream /\ stream._ds # None
                       /\ Len(stream.descriptors) = 1) =>
        stream._ds.uid =
            [k \in 1..Len(InDescriptorOrder(stream.descriptors)) |->
                 InDescriptorOrder(stream.descriptors)[k].uid]

(***************************************************************************)
(* Two runs of one catalog.  The catalog has one Filler (lines 93-98) and  *)
(* Entries._doc_to_entry hands it, with the catalog's getters, to the      *)
(* RunCatalog of every run (lines 171-181).  The RunCatalog of the other   *)
(* run has its own attributes and its own read_partition frame; the        *)
(* Filler's caches are the ones the first run's reads fill.  A client      *)
(* reads the partitions of the two runs one call after another.            *)
(***************************************************************************)
\* RunCatalog._load of the run of a run_start uid
_load_run(run_start_uid) ==
    LET run_stop_doc == _get_run_stop(run_start_uid)
        descriptors == _get_event_descriptors(run_start_uid)
        count == Count(descriptors, run_stop_doc)
    IN  [_run_stop_doc |-> run_stop_doc,
         _descriptors |-> descriptors,
         _offset |-> Len(descriptors) + 1,
         count |-> count,
         npartitions |-> ceil(count, PARTITION_SIZE)]

\* lines 403-410, of the run of a run_start document
LeadingOf(run_start_doc, start, stop, offset, descriptors) ==
    IF start < offset
    THEN islice(<<<<"start", run_start_doc>>>> \o
                [k \in 1..Len(descriptors) |->
                     <<"descriptor", descriptors[k]>>],
                start, stop)
    ELSE <<>>

\* lines 399-416 on the other run's RunCatalog
RunBCall(n) ==
    /\ pc = "idle"
    /\ run_b.pc = "idle"
    /\ LET loaded == _load_run(OtherRunUid)
           start == n * PARTITION_SIZE
           stop == (1 + n) * PARTITION_SIZE
           lead == LeadingOf([uid |-> OtherRunUid], start, stop,
                             loaded._offset, loaded._descriptors)
           skip == Skip(start, lead)
           lim == Limit(start, stop, lead)
       IN  run_b' = [NoRun EXCEPT
               !.i = n,
               !.payload = lead,
               !.events = IF lim > 0
                          THEN _get_event_cursor(Uids(loaded._descriptors),
                                                 skip, lim)
                          ELSE <<>>,
               !.pc = IF lim > 0 THEN "events" ELSE "return",
               !.npartitions = loaded.npartitions,
               !._run_stop_doc = loaded._run_stop_doc,
               !.registered = run_b.registered]
    /\ UNCHANGED <<PARTITION_SIZE, storeVars, catalogVars, fillerVars,
                   frameVars, parts, grown, other, streamVars, faults,
                   catVars>>

\* lines 417-421 and 431
RunBFillEvent ==
    /\ run_b.pc = "events"
    /\ run_b.events # <<>>
    /\ LET doc == Head(run_b.events)
           hit == FirstMiss(doc, datum_cache) = 0
           filled == FillerEvent(doc, datum_cache)
       IN  run_b' = [run_b EXCEPT
               !.events = Tail(@),
               !.event = filled,
               !.fetches = <<>>,
               !.payload = IF hit THEN Append(@, <<"event", filled>>) ELSE @,
               !.err = IF hit THEN NoError ELSE Unresolvable(doc, datum_cache),
               !.pc = IF hit THEN "events" ELSE "get_datum"]
    /\ UNCHANGED <<PARTITION_SIZE, storeVars, catalogVars, fillerVars,
                   frameVars, parts, grown, other, streamVars, faults,
                   catVars>>

\* line 422
RunBGetDatum ==
    /\ run_b.pc = "get_datum"
    /\ LET found == _get_datum(run_b.err.key)
       IN  run_b' = [run_b EXCEPT
               !.fetches = Append(@, <<"datum", run_b.err.key>>),
               !.err = IF found = None
                       THEN Raise("ValueError", run_b.err.key) ELSE @,
               !.datum = IF found = None THEN @ ELSE found,
               !.pc = IF found = None THEN "raised" ELSE "get_resource"]
    /\ UNCHANGED <<PARTITION_SIZE, storeVars, catalogVars, fillerVars,
                   frameVars, parts, grown, other, streamVars, faults,
                   catVars>>

\* lines 423-425
RunBGetResource ==
    /\ run_b.pc = "get_resource"
    /\ LET found == _get_resource(run_b.datum.resource)
       IN  /\ run_b' = [run_b EXCEPT
                  !.fetches = Append(@, <<"resource", run_b.datum.resource>>),
                  !.err = IF found = None
                          THEN Raise("ValueError", run_b.datum.resource)
                          ELSE @,
                  !.registered = IF found = None THEN @
                                 ELSE @ \cup {found.uid},
                  !.pc = IF found = None THEN "raised"
                         ELSE "get_datum_cursor"]
           /\ resource_cache' = IF found = None THEN resource_cache
                                ELSE resource_cache \cup {found}
    /\ UNCHANGED <<PARTITION_SIZE, storeVars, catalogVars, datum_cache,
                   frameVars, parts, grown, other, streamVars, faults,
                   catVars>>

\* lines 427-431
RunBGetDatumCursor ==
    /\ run_b.pc = "get_datum_cursor"
    /\ datum_cache' = datum_cache \cup _get_datum_cursor(run_b.datum.resource)
    /\ LET hit == FirstMiss(run_b.event, datum_cache') = 0
           filled == FillerEvent(run_b.event, datum_cache')
       IN  run_b' = [run_b EXCEPT
               !.fetches = Append(@, <<"datum_cursor", run_b.datum.resource>>),
               !.event = filled,
               !.payload = IF hit THEN Append(@, <<"event", filled>>) ELSE @,
               !.err = IF hit THEN NoError
                       ELSE Unresolvable(run_b.event, datum_cache'),
               !.pc = IF hit THEN "events" ELSE "raised"]
    /\ UNCHANGED <<PARTITION_SIZE, storeVars, catalogVars, resource_cache,
                   frameVars, parts, grown, other, streamVars, faults,
                   catVars>>

\* lines 432-433
RunBEndEvents ==
    /\ run_b.pc = "events"
    /\ run_b.events = <<>>
    /\ run_b' = [run_b EXCEPT
           !.payload = IF EmitsStop(run_b.i, run_b.npartitions,
                                    run_b._run_stop_doc)
                       THEN Append(@, <<"stop", run_b._run_stop_doc>>)
                       ELSE @,
           !.pc = "return"]
    /\ UNCHANGED <<PARTITION_SIZE, storeVars, catalogVars, fillerVars,
                   frameVars, parts, grown, other, streamVars, faults,
                   catVars>>

\* line 436, or the exception leaving read_partition: the frame is dropped
RunBReturn ==
    /\ run_b.pc \in {"return", "raised"}
    /\ run_b' = [NoRun EXCEPT !.registered = run_b.registered]
    /\ UNCHANGED <<PARTITION_SIZE, storeVars, catalogVars, fillerVars,
                   frameVars, parts, grown, other, streamVars, faults,
                   catVars>>

\* partition sizes at which the other run's event is in its partition 0
SharedSizes == {MaxPartitionSize - 1, MaxPartitionSize}

\* the other run has one event, which may refer to datum records, and the
\* events of the first run are of one shape
InitShared ==
    /\ PARTITION_SIZE \in SharedSizes
    /\ \E nd \in 1..MaxDescriptors, ne \in 0..MaxEvents, closed \in BOOLEAN,
          data \in DataShapes, data_b \in DataShapes :
          /\ _event_descriptor_collection =
                 {Descriptor(0, OtherRunUid)} \cup
                 {Descriptor(k, RunUid) : k \in 1..nd}
          /\ _event_collection =
                 {Event(0, 0, data_b)} \cup
                 {Event(k, ((k - 1) % nd) + 1, data) : k \in 1..ne}
          /\ _run_stop_collection =
                 {RunStop(2, OtherRunUid)} \cup
                 (IF closed THEN {RunStop(1, RunUid)} ELSE {})
    /\ _run_start_collection = {RunStart(1), RunStart(2)}
    /\ Fresh

NextShared ==
    \/ \E n \in Indices : run_b.pc = "idle" /\ Call(n)
    \/ FillEvent
    \/ GetDatum
    \/ GetResource
    \/ GetDatumCursor
    \/ EndEvents
    \/ Return
    \/ \E n \in 0..1 : RunBCall(n)
    \/ RunBFillEvent
    \/ RunBGetDatum
    \/ RunBGetResource
    \/ RunBGetDatumCursor
    \/ RunBEndEvents
    \/ RunBReturn

SpecShared == InitShared /\ [][NextShared]_vars

\* the resources of the datum records that filled an event's keys
ResourcesFilled(doc) ==
    {_get_datum(doc.data[k]).resource :
         k \in {j \in 1..Len(doc.data) : doc.filled[j]}}

\* every filled event that the other run's call has emitted was filled from
\* resources that the other run's own calls registered
OwnMissAndPrefetch ==
    \A k \in 1..Len(run_b.payload) :
        run_b.payload[k][1] = "event" =>
            ResourcesFilled(run_b.payload[k][2]) \subseteq run_b.registered

(***************************************************************************)
(* C23: the Filler's caches never evict (what the reads of a run           *)
(* registered stays cached) and are not shared across runs: an event of    *)
(* another run of the same catalog is never filled from what the first     *)
(* run's reads cached, its first reference to a resource goes through a    *)
(* miss and a prefetch of its own.                                         *)
(***************************************************************************)
C23_CacheNeverEvictsNorCrossesRuns ==
    /\ [][/\ resource_cache \subseteq resource_cache'
          /\ datum_cache \subseteq datum_cache']_vars
    /\ []OwnMissAndPrefetch

\* the part that is about eviction
C23_NeverEvicts ==
    [][/\ resource_cache \subseteq resource_cache'
       /\ datum_cache \subseteq datum_cache']_vars

\* the other run's event filled after a miss and a prefetch of its own
C23_OwnPrefetchHappens ==
    /\ run_b.pc = "return"
    /\ run_b.registered # {}
    /\ \E k \in 1..Len(run_b.payload) :
           /\ run_b.payload[k][1] = "event"
           /\ ResourcesFilled(run_b.payload[k][2]) # {}

(***************************************************************************)
(* C24: close() on a stream raises no error and leaves the stream without  *)
(* a dataset, in every state of the stream: after a materialization it     *)
(* clears the dataset reference, and on a stream that was never            *)
(* materialized or is closed already it does nothing.                      *)
(***************************************************************************)
C24_CloseIsSafe ==
    [][stream'.closes = stream.closes + 1 =>
           /\ stream'._ds = None
           /\ stream'.result = None
           /\ stream._ds = None =>
                  stream' = [stream EXCEPT !.closes = @ + 1, !.result = None]
      ]_vars

\* the same, of the streams that hold a dataset when close() is called
C24_CloseReleasesDataset ==
    [][(stream'.closes = stream.closes + 1 /\ stream._ds # None) =>
           /\ stream'._ds = None
           /\ stream'.result = None
      ]_vars

\* close() in the three states: after a materialization, on a stream never
\* materialized, on a stream closed already
C24_ClosedTwice ==
    /\ stream.closes = 2
    /\ stream.opened = 1
    /\ stream._ds = None

C24_ClosedUnopened ==
    /\ stream.closes = 1
    /\ stream.opened = 0
    /\ stream.accesses = 0

====
